---- MODULE Spec2Model ----
(***************************************************************************)
(* PushBot: the deployment engine of pushbot/deployer.py                   *)
(* (start_deployment, run_deployment, DeploymentRunner,                    *)
(* _process_queue_for_service), the HTTP handlers of pushbot/main.py       *)
(* (webhook ingress, manual trigger, clear, log stream, startup            *)
(* reconciliation) and the webhook interpreter of pushbot/webhook.py, over *)
(* the rows of pushbot/models.py.                                          *)
(*                                                                         *)
(* Everything runs on one asyncio event loop and the database calls are    *)
(* synchronous, so the code between two real suspension points is one      *)
(* atomic step.  The suspension points of a runner are the start of its    *)
(* task (loop.create_task), the reads of the two stream readers, the wait  *)
(* for the child and the joins of the readers.  The suspension points of a *)
(* log stream are the start of its generator, each yield and each sleep.   *)
(***************************************************************************)
EXTENDS Integers, Sequences, FiniteSets, TLC

\* ---------------------------------------------------------------- bounds
\* Deployments created in one behaviour.
MaxDeployments == 3
\* Deployments created in one behaviour of SpecWebhook.
MaxWebhookDeployments == 2
\* Deployments created in one behaviour of SpecLogs.
MaxLogDeployments == 1
\* Lines a child writes to its two pipes.
MaxLines == 2
\* Ticks of the log clock.
MaxNow == 2
\* Log streams opened in one behaviour.
MaxStreams == 1
\* Definitions in a configuration file read at startup.
MaxDefinitions == 2
\* Deployments stored by earlier runs of the application.
MaxStoredDeployments == 2

\* The longest ref of a push, in tokens.
MaxRefLen == 3

\* Deployments of a run whose readers may fail.
MaxErrorDeployments == 2

\* ------------------------------------------------------------- constants
ServiceIds == {1, 2}
Triggers == {"webhook", "manual"}
ExitCodes == {0, 1}
Terminal == {"success", "failed"}
Statuses == {"queued", "running", "success", "failed"}

\* A nullable column: NULL, or a one-element tuple holding the value.
NULL == <<>>
Some(v) == <<v>>

\* Texts are sequences of tokens; "".join and f-strings are concatenation.
ServiceName(s) == IF s = 1 THEN "web" ELSE "api"

\* The configured service definitions (config.yaml), one per service id.
ConfigCommand(s) == IF s = 1 THEN "deploy-web" ELSE "deploy-api"

\* config.py 8-14
ServiceConfig(name, repository, path, branch, deploy_command) ==
    [name |-> name, repository |-> repository, path |-> path,
     branch |-> branch, deploy_command |-> deploy_command]

ConfigOf(s) ==
    ServiceConfig(ServiceName(s), <<"acme", "/", ServiceName(s)>>,
                  <<"/srv/", ServiceName(s)>>, <<"main">>, ConfigCommand(s))

\* config.py 17-31: AppConfig.services as load_config returns it.
DefaultConfig == <<ConfigOf(1), ConfigOf(2)>>

VARIABLES
    services,          \* table services: id -> row
    deployments,       \* table deployments: id -> row
    clock,             \* the last value datetime.utcnow() gave start_deployment
    pending,           \* run_deployment tasks created and not yet started
    active,            \* active_deployments: deployment id -> runner
    runnerStarts,      \* history: DeploymentRunner objects created per id
    runnerExits,       \* history: exits of runner.run per id
    handlerCalls,      \* history: _process_queue_for_service calls per id
    handlerSawActive,  \* history: ids still in the active map at that call
    spawnFailed,       \* history: ids whose Popen raised
    promotions,        \* history: ids promoted queued -> running, in order
    statusLog,         \* history: the statuses written to each row, in order
    config,            \* app_config.services
    lifecycle,         \* lifespan: "starting", "serving", "failed" or "stopped"
    request,           \* history: the last webhook request received
    response,          \* the last HTTP response sent
    now,               \* the value datetime.now() gives the runners
    ring,              \* runner.ordered_logs of every runner object, by id
    subs               \* the log streams (generate_logs generators)

vars == <<services, deployments, clock, pending, active, runnerStarts,
          runnerExits, handlerCalls, handlerSawActive, spawnFailed, promotions,
          statusLog, config, lifecycle, request, response, now, ring, subs>>

\* The in-memory state of the runners and their history.
runnerVars == <<pending, active, runnerStarts, runnerExits, handlerCalls,
                handlerSawActive, spawnFailed, promotions, ring>>

Max(S) == CHOOSE x \in S : \A y \in S : y <= x

Count(f, id) == IF id \in DOMAIN f THEN f[id] ELSE 0

Bump(f, id) == [x \in DOMAIN f \cup {id} |-> IF x = id THEN Count(f, id) + 1 ELSE f[x]]

Put(f, k, v) == [x \in DOMAIN f \cup {k} |-> IF x = k THEN v ELSE f[x]]

\* The status log after a write that took the table from `before` to `after`.
Logged(log, before, after) ==
    [d \in DOMAIN after |->
        IF d \notin DOMAIN before THEN <<after[d].status>>
        ELSE IF before[d].status # after[d].status THEN Append(log[d], after[d].status)
        ELSE log[d]]

\* ------------------------------------------------------------ the tables

\* models.py 8-20: the Service row of a configured definition.
ServiceOf(c) ==
    [name |-> c.name, repository |-> c.repository, path |-> c.path,
     branch |-> c.branch, deploy_command |-> c.deploy_command]

ServiceRow(s) == ServiceOf(ConfigOf(s))

\* deployer.py 215: started_at = datetime.utcnow().  Two calls of
\* start_deployment are separated by a commit, so the microsecond clock gives
\* the later call the later value.
utcnow(c) == c + 1

\* Primary key of the next inserted row, after n rows were inserted: the keys
\* auto-increment and are never given twice.
NewId(n) == n + 1

\* Mutant of find_running: the status filter names a status no row ever has.
find_running_wrong_status(deps, s) ==
    \E d \in DOMAIN deps : deps[d].service_id = s /\ deps[d].status = "active"

\* deployer.py 206-209: the service has a row with status running.
find_running(deps, s) ==
    \E d \in DOMAIN deps : deps[d].service_id = s /\ deps[d].status = "running"

\* Mutant of InitialStatus: the two branches are swapped.
InitialStatus_swapped(running_exists) == IF running_exists THEN "running" ELSE "queued"

\* deployer.py 214
InitialStatus(running_exists) == IF running_exists THEN "queued" ELSE "running"

\* deployer.py 212-220
NewDeployment(s, st, started, commit_sha, commit_message, branch, trig) ==
    [service_id |-> s, status |-> st, started_at |-> started,
     finished_at |-> NULL, exit_code |-> NULL, stdout |-> NULL, stderr |-> NULL,
     commit_sha |-> commit_sha, commit_message |-> commit_message,
     branch |-> branch, triggered_by |-> trig]

Insert(deps, id, row) == Put(deps, id, row)

\* models.py 23-39: the columns of table deployments, without the key.
DeploymentColumns ==
    {"service_id", "status", "started_at", "finished_at", "stdout", "stderr",
     "exit_code", "commit_sha", "commit_message", "branch"}

\* Mutant of persisted_row: every attribute given to the constructor is a
\* column.
persisted_row_all(row) == row

\* models.py 23-39: what the table holds of a Deployment object.
persisted_row(row) == [c \in DeploymentColumns \cap DOMAIN row |-> row[c]]

\* Mutant of SchedulesRunner: the early return of the queued case is missing.
SchedulesRunner_always(running_exists) == TRUE

\* deployer.py 226-231: a runner task is created only for a row created running.
SchedulesRunner(running_exists) == ~running_exists

Task(id, s, cmd, trig) ==
    [id |-> id, service_id |-> s, command |-> cmd, triggered_by |-> trig]

\* Mutant of next_queued: the filter on the service is missing.
next_queued_any_service(deps, s) ==
    LET q == {d \in DOMAIN deps : deps[d].status = "queued"}
    IN  {d \in q : \A e \in q : deps[d].started_at <= deps[e].started_at}

\* Mutant of next_queued: the order is descending.
next_queued_newest(deps, s) ==
    LET q == {d \in DOMAIN deps : deps[d].service_id = s /\ deps[d].status = "queued"}
    IN  {d \in q : \A e \in q : deps[d].started_at >= deps[e].started_at}

\* deployer.py 272-275: the queued rows of the service that ORDER BY
\* started_at ASC may return first (rows with equal started_at tie).
next_queued(deps, s) ==
    LET q == {d \in DOMAIN deps : deps[d].service_id = s /\ deps[d].status = "queued"}
    IN  {d \in q : \A e \in q : deps[d].started_at <= deps[e].started_at}

\* Mutant of FinalStatus: a failed deployment is put back in the queue.
FinalStatus_requeue(exit_code) == IF exit_code = 0 THEN "success" ELSE "queued"

\* deployer.py 119
FinalStatus(exit_code) == IF exit_code = 0 THEN "success" ELSE "failed"

\* ------------------------------------------------------------- log lines

\* The resolution of the log clock `now`, in ticks per second: strftime
\* "%Y-%m-%d %H:%M:%S" (deployer.py 28) keeps the whole seconds only.
TicksPerSecond == 2

\* The texts strftime gives the seconds 0, 1, 2, ...
SecondTexts == <<"00", "01", "02", "03">>

strftime(t) == SecondTexts[(t \div TicksPerSecond) + 1]

\* deployer.py 24-29
format_log_line(t, line) ==
    IF line = <<>> THEN line ELSE <<"[", strftime(t), "]", " ">> \o line

\* str.strip() of the line is empty.
IsBlank(line) == \A i \in 1..Len(line) : line[i] \in {" ", "\n"}

\* deployer.py 31-48: ordered_logs after _add_log(line, stream_type) at time t.
add_log(logs, t, line, stream) ==
    IF line = <<>> \/ (IsBlank(line) /\ line # <<"\n">>)
    THEN logs
    ELSE Append(logs, [timestamp |-> t, line |-> format_log_line(t, line),
                       stream |-> stream])

\* deployer.py 71-74
start_message(service_name, command, trig) ==
    <<"[DEPLOY START]", service_name, command,
      IF trig = "" THEN "triggered manually" ELSE trig, "\n">>

\* deployer.py 110-114
end_message(exit_code) ==
    <<"[DEPLOY END]", IF exit_code = 0 THEN "SUCCESS" ELSE "FAILED", "\n">>

\* The entries sorted(logs, key=lambda x: x[0]) puts before entry i: the
\* earlier ones and, the sort being stable, the equal ones that precede it.
before(logs, i) ==
    {j \in 1..Len(logs) :
        \/ logs[j].timestamp < logs[i].timestamp
        \/ logs[j].timestamp = logs[i].timestamp /\ j < i}

\* main.py 309, 322, 383 and deployer.py 125: sorted(logs, key=lambda x: x[0])
\* (the list is bound once as `list`, so that it is evaluated once)
sorted_by_timestamp(logs) ==
    CHOOSE sorted \in
        {[p \in 1..Len(list) |->
             list[CHOOSE i \in 1..Len(list) : Cardinality(before(list, i)) = p - 1]] :
         list \in {logs}} : TRUE

RECURSIVE Join(_)
\* "".join(lines)
Join(lines) == IF lines = <<>> THEN <<>> ELSE Head(lines) \o Join(Tail(lines))

OfStream(logs, stream) == SelectSeq(logs, LAMBDA e : e.stream = stream)

\* Mutant of persisted: the entries are not separated by stream.
persisted_of_both(logs, stream) ==
    LET lines == sorted_by_timestamp(logs)
    IN  Join([i \in 1..Len(lines) |-> lines[i].line])

\* deployer.py 124-136: the text persisted for one stream.
persisted(logs, stream) ==
    LET lines == OfStream(sorted_by_timestamp(logs), stream)
    IN  Join([i \in 1..Len(lines) |-> lines[i].line])

\* Mutant of finalize: finished_at is not set.
finalize_without_finished_at(deps, id, exit_code, fin, logs) ==
    IF id \in DOMAIN deps
    THEN [deps EXCEPT ![id].status = FinalStatus(exit_code),
                      ![id].exit_code = Some(exit_code),
                      ![id].stdout = Some(persisted(logs, "stdout")),
                      ![id].stderr = Some(persisted(logs, "stderr"))]
    ELSE deps

\* deployer.py 117-140: the runner persists its result.
finalize(deps, id, exit_code, fin, logs) ==
    IF id \in DOMAIN deps
    THEN [deps EXCEPT ![id].status = FinalStatus(exit_code),
                      ![id].finished_at = Some(fin),
                      ![id].exit_code = Some(exit_code),
                      ![id].stdout = Some(persisted(logs, "stdout")),
                      ![id].stderr = Some(persisted(logs, "stderr"))]
    ELSE deps

\* deployer.py 82-92 raising: run() has no handler, the row is left as it is.
spawn_failure(deps, id) == deps

\* Mutant of register: the runner is stored under the id of its service.
register_under_service(act, t) ==
    [x \in DOMAIN act \cup {t.service_id} |->
        IF x = t.service_id
        THEN [service_id |-> t.service_id, command |-> t.command,
              triggered_by |-> t.triggered_by, pc |-> "child", exit_code |-> NULL]
        ELSE act[x]]

\* deployer.py 246
register(act, t) ==
    [x \in DOMAIN act \cup {t.id} |->
        IF x = t.id
        THEN [service_id |-> t.service_id, command |-> t.command,
              triggered_by |-> t.triggered_by, pc |-> "child", exit_code |-> NULL]
        ELSE act[x]]

\* Mutant of pop_active: the runner is not removed before the queue is processed.
pop_active_skipped(act, id) == act

\* deployer.py 251: active_deployments.pop(deployment_id, None)
pop_active(act, id) == [x \in DOMAIN act \ {id} |-> act[x]]

\* ------------------------------------------------------- webhook ingress

\* An HTTP response: the status code, the detail of an HTTPException, and the
\* deployment_id, service and deleted_count of the body of a 200.
Response(status, detail, deployment_id, service) ==
    [status |-> status, detail |-> detail, deployment_id |-> deployment_id,
     service |-> service, deleted_count |-> NULL]

HTTPException(status, detail) == Response(status, detail, NULL, NULL)

\* The value of GITHUB_WEBHOOK_SECRET when it is set.
Secret == "s3cret"

\* An X-Hub-Signature-256 header: the scheme prefix and the digest, which is
\* the HMAC under `key` of the body `of` ("this" request's body or another).
Signature(scheme, key, of) == [scheme |-> scheme, key |-> key, of |-> of]

\* webhook.py 12-35
verify_github_signature(signature_header, secret) ==
    IF secret = NULL THEN TRUE
    ELSE IF signature_header = NULL THEN FALSE
    ELSE IF signature_header[1].scheme # "sha256=" THEN FALSE
    ELSE signature_header[1].key = secret[1] /\ signature_header[1].of = "this"

Repository(kind, full_name, owner, name) ==
    [kind |-> kind, full_name |-> full_name, owner |-> owner, name |-> name]

Payload(repository, ref, commits) ==
    [repository |-> repository, ref |-> ref, commits |-> commits]

\* A request body: empty, bytes that are not UTF-8, text that is not JSON, a
\* JSON array, or a JSON object with the fields the interpreter reads.
Body(kind, payload) == [kind |-> kind, payload |-> payload]

Request(content_type, secret, signature, body) ==
    [content_type |-> content_type, secret |-> secret, signature |-> signature,
     body |-> body]

\* main.py 188-189: "application/json" in content_type
IsJsonContentType(content_type) ==
    \E i \in 1..Len(content_type) : content_type[i] = "application/json"

\* webhook.py 53-61
repository_full_name(repository) ==
    IF repository.full_name # <<>> THEN repository.full_name
    ELSE IF repository.owner # "" /\ repository.name # ""
    THEN <<repository.owner, "/", repository.name>>
    ELSE <<>>

\* Mutant of branch_of: only the leading prefix is removed.
branch_of_prefix_only(ref) ==
    IF ref # <<>> /\ ref[1] = "refs/heads/" THEN Tail(ref) ELSE <<>>

\* webhook.py 67: ref.replace("refs/heads/", "") if ref.startswith("refs/heads/")
branch_of(ref) ==
    IF ref # <<>> /\ ref[1] = "refs/heads/"
    THEN SelectSeq(ref, LAMBDA tok : tok # "refs/heads/")
    ELSE <<>>

\* config.py 34-39: the positions of the definitions that match.
matching(cfg, repository, branch) ==
    {i \in 1..Len(cfg) : cfg[i].repository = repository /\ cfg[i].branch = branch}

get_service_by_repository(cfg, repository, branch) ==
    IF matching(cfg, repository, branch) = {} THEN NULL
    ELSE Some(cfg[CHOOSE i \in matching(cfg, repository, branch) :
                    \A j \in matching(cfg, repository, branch) : i <= j])

\* webhook.py 45-82: the error the interpreter returns, or NULL.
interpreter_error(cfg, payload) ==
    IF payload.repository.kind # "object"
       \/ (payload.repository.full_name = <<>> /\ payload.repository.owner = ""
           /\ payload.repository.name = "")
    THEN Some("repository")
    ELSE IF payload.ref = <<>> THEN Some("ref")
    ELSE IF repository_full_name(payload.repository) = <<>>
            \/ branch_of(payload.ref) = <<>>
    THEN Some("undetermined")
    ELSE IF get_service_by_repository(cfg, repository_full_name(payload.repository),
                                      branch_of(payload.ref)) = NULL
    THEN Some("not found")
    ELSE NULL

\* Mutant of ingress_error: the body is parsed before the signature is verified.
ingress_error_parse_first(cfg, req) ==
    IF ~IsJsonContentType(req.content_type)
    THEN Some(HTTPException(400, "content type"))
    ELSE IF req.body.kind = "empty" THEN Some(HTTPException(400, "empty body"))
    ELSE IF req.body.kind = "not_utf8" THEN Some(HTTPException(400, "utf-8"))
    ELSE IF req.body.kind = "not_json" THEN Some(HTTPException(400, "json"))
    ELSE IF req.body.kind # "object" THEN Some(HTTPException(400, "not an object"))
    ELSE IF req.secret # NULL /\ ~verify_github_signature(req.signature, req.secret)
    THEN Some(HTTPException(401, "signature"))
    ELSE IF interpreter_error(cfg, req.body.payload) # NULL
    THEN Some(HTTPException(400, interpreter_error(cfg, req.body.payload)[1]))
    ELSE NULL

\* Mutant of ingress_error: the signature is not verified.
ingress_error_unsigned(cfg, req) ==
    IF ~IsJsonContentType(req.content_type)
    THEN Some(HTTPException(400, "content type"))
    ELSE IF req.body.kind = "empty" THEN Some(HTTPException(400, "empty body"))
    ELSE IF req.body.kind = "not_utf8" THEN Some(HTTPException(400, "utf-8"))
    ELSE IF req.body.kind = "not_json" THEN Some(HTTPException(400, "json"))
    ELSE IF req.body.kind # "object" THEN Some(HTTPException(400, "not an object"))
    ELSE IF interpreter_error(cfg, req.body.payload) # NULL
    THEN Some(HTTPException(400, interpreter_error(cfg, req.body.payload)[1]))
    ELSE NULL

\* main.py 187-236: the HTTPException the request is answered with, or NULL
\* when it passes every check.
ingress_error(cfg, req) ==
    IF ~IsJsonContentType(req.content_type)
    THEN Some(HTTPException(400, "content type"))
    ELSE IF req.body.kind = "empty" THEN Some(HTTPException(400, "empty body"))
    ELSE IF req.secret # NULL /\ ~verify_github_signature(req.signature, req.secret)
    THEN Some(HTTPException(401, "signature"))
    ELSE IF req.body.kind = "not_utf8" THEN Some(HTTPException(400, "utf-8"))
    ELSE IF req.body.kind = "not_json" THEN Some(HTTPException(400, "json"))
    ELSE IF req.body.kind # "object" THEN Some(HTTPException(400, "not an object"))
    ELSE IF interpreter_error(cfg, req.body.payload) # NULL
    THEN Some(HTTPException(400, interpreter_error(cfg, req.body.payload)[1]))
    ELSE NULL

\* webhook.py 85: the id of the Service row with this name, or NULL.
service_by_name(svcs, name) ==
    IF \E s \in DOMAIN svcs : svcs[s].name = name
    THEN Some(CHOOSE s \in DOMAIN svcs : svcs[s].name = name)
    ELSE NULL

NewServiceId(svcs) == IF DOMAIN svcs = {} THEN 1 ELSE Max(DOMAIN svcs) + 1

\* Mutant of upsert_service: a row is inserted whether the name has one or
\* not.
upsert_service_always_adds(svcs, c) == Put(svcs, NewServiceId(svcs), ServiceOf(c))

\* webhook.py 85-103 and main.py 48-63: the row of the definition is inserted,
\* or overwritten under its id.
upsert_service(svcs, c) ==
    IF service_by_name(svcs, c.name) = NULL
    THEN Put(svcs, NewServiceId(svcs), ServiceOf(c))
    ELSE Put(svcs, service_by_name(svcs, c.name)[1], ServiceOf(c))

Commit(id, message) == [id |-> id, message |-> message]

\* webhook.py 106-112
commit_sha_of(commits) ==
    IF commits = <<>> THEN NULL ELSE Some(commits[Len(commits)].id)

commit_message_of(commits) ==
    IF commits = <<>> THEN NULL ELSE Some(commits[Len(commits)].message)

\* The push of one commit to the configured branch of service s, unsigned,
\* with no secret set.
PushRequest(s) ==
    Request(<<"application/json">>, NULL, NULL,
            Body("object",
                 Payload(Repository("object", ConfigOf(s).repository, "", ""),
                         <<"refs/heads/">> \o ConfigOf(s).branch,
                         <<Commit("c1", "fix")>>)))

\* ------------------------------------------------------------------ Init

Init ==
    /\ services = [s \in ServiceIds |-> ServiceRow(s)]
    /\ deployments = <<>>
    /\ clock = 0
    /\ pending = {}
    /\ active = <<>>
    /\ runnerStarts = <<>>
    /\ runnerExits = <<>>
    /\ handlerCalls = <<>>
    /\ handlerSawActive = {}
    /\ spawnFailed = {}
    /\ promotions = <<>>
    /\ statusLog = <<>>
    /\ config = DefaultConfig
    /\ lifecycle = "serving"
    /\ request = NULL
    /\ response = NULL
    /\ now = 0
    /\ ring = <<>>
    /\ subs = <<>>

\* --------------------------------------------------------------- actions

\* Mutant of ServiceObject: the object of the first service, whatever the id.
ServiceObject_of_first(svcs, sid) ==
    [id |-> Max({s \in DOMAIN svcs : \A o \in DOMAIN svcs : s <= o}),
     branch |-> svcs[sid].branch]

\* The Service object the handlers pass to start_deployment.
ServiceObject(svcs, sid) == [id |-> sid, branch |-> svcs[sid].branch]

\* deployer.py 193-233, called by the webhook (webhook.py 115-123) and by the
\* manual trigger (main.py 487-495).
start_deployment(service, command, commit_sha, commit_message, branch, trig) ==
    /\ clock < MaxDeployments
    /\ LET running_exists == find_running(deployments, service.id)
           id == NewId(clock)
           started == utcnow(clock)
       IN  /\ clock' = started
           /\ deployments' = Insert(deployments, id,
                   NewDeployment(service.id, InitialStatus(running_exists), started,
                                 commit_sha, commit_message,
                                 IF branch = <<>> THEN service.branch ELSE branch,
                                 IF trig = "" THEN "manual" ELSE trig))
           /\ pending' = IF SchedulesRunner(running_exists)
                         THEN pending \cup {Task(id, service.id, command, trig)}
                         ELSE pending
           /\ statusLog' = Logged(statusLog, deployments, deployments')
    /\ UNCHANGED <<active, runnerStarts, runnerExits, handlerCalls,
                   handlerSawActive, spawnFailed, promotions, config, lifecycle, now,
                   ring, subs>>

\* main.py 181-238 with webhook.py 38-129: POST /webhook.
handle_webhook_request(req) ==
    /\ request' = Some(req)
    /\ \E err \in {ingress_error(config, req)} :
       IF err # NULL
       THEN /\ response' = Some(err[1])
            /\ UNCHANGED <<services, deployments, clock, statusLog, runnerVars,
                           config, lifecycle, now, subs>>
       ELSE \E branch \in {branch_of(req.body.payload.ref)} :
            \E service_config \in
                  {get_service_by_repository(
                       config, repository_full_name(req.body.payload.repository),
                       branch)[1]} :
            \E svcs \in {upsert_service(services, service_config)} :
            \E sid \in {service_by_name(svcs, service_config.name)[1]} :
                /\ services' = svcs
                /\ start_deployment(ServiceObject(svcs, sid),
                                    service_config.deploy_command,
                                    commit_sha_of(req.body.payload.commits),
                                    commit_message_of(req.body.payload.commits),
                                    branch, "webhook")
                /\ response' = Some(Response(200, "", Some(NewId(clock)),
                                             Some(service_config.name)))

\* main.py 492: the commit message of a manual trigger, a Russian text
\* ("manual start of a deployment"), in Latin transliteration.
ManualCommitMessage == "Ruchnoy zapusk deploya"

\* main.py 476-501: POST /api/services/{service_id}/deploy.
deploy_service(service_id) ==
    IF service_id \notin DOMAIN services
    THEN /\ response' = Some(HTTPException(404, "service not found"))
         /\ UNCHANGED <<services, deployments, clock, statusLog, runnerVars,
                        config, lifecycle, request, now, subs>>
    ELSE /\ start_deployment(ServiceObject(services, service_id),
                             services[service_id].deploy_command, NULL,
                             Some(ManualCommitMessage),
                             services[service_id].branch, "manual")
         /\ response' = Some(Response(200, "", Some(NewId(clock)),
                                      Some(services[service_id].name)))
         /\ UNCHANGED <<services, request>>

\* Mutant of promoted_task: the command is the one of the definition the push
\* of the row matched when it was enqueued.
promoted_task_as_enqueued(svcs, deps, q, s) ==
    Task(q, s,
         get_service_by_repository(config, svcs[s].repository,
                                   deps[q].branch)[1].deploy_command,
         deps[q].triggered_by)

\* deployer.py 280-292: the task of the promoted row q of service s.
promoted_task(svcs, deps, q, s) ==
    Task(q, s, svcs[s].deploy_command, deps[q].triggered_by)

\* deployer.py 267-292, as called from the finally of run_deployment (252-258)
\* for runner `id` of service s, on the tables deps and the active map act.
process_queue_for_service(deps, act, pend, id, s) ==
    /\ handlerCalls' = Bump(handlerCalls, id)
    /\ handlerSawActive' = IF id \in DOMAIN act THEN handlerSawActive \cup {id}
                           ELSE handlerSawActive
    /\ active' = act
    /\ IF next_queued(deps, s) = {} \/ s \notin DOMAIN services
       THEN /\ deployments' = deps
            /\ pending' = pend
            /\ promotions' = promotions
       ELSE \E q \in next_queued(deps, s) :
            /\ deployments' = [deps EXCEPT ![q].status = "running"]
            /\ promotions' = Append(promotions, q)
            /\ pending' = pend \cup {promoted_task(services, deps, q, s)}
    /\ statusLog' = Logged(Logged(statusLog, deployments, deps), deps, deployments')

\* Mutant of started_logs: run() logs no start line.
started_logs_none(t) == <<>>

\* deployer.py 63-74: the name run() logs, and ordered_logs after the
\* [DEPLOY START] line.
started_logs(t) ==
    add_log(<<>>, now,
            start_message(IF t.id \in DOMAIN deployments
                             /\ deployments[t.id].service_id \in DOMAIN services
                          THEN services[deployments[t.id].service_id].name
                          ELSE "Unknown",
                          t.command, t.triggered_by),
            "stdout")

\* deployer.py 241-248 and 60-100: the task starts, the runner is registered,
\* the start line is logged and the child is spawned.
run_deployment_spawn(t) ==
    /\ t \in pending
    /\ active' = register(active, t)
    /\ pending' = pending \ {t}
    /\ runnerStarts' = Bump(runnerStarts, t.id)
    /\ ring' = Put(ring, t.id, started_logs(t))
    /\ UNCHANGED <<services, deployments, clock, runnerExits, handlerCalls,
                   handlerSawActive, spawnFailed, promotions, statusLog,
                   config, lifecycle, request, response, now, subs>>

\* deployer.py 241-258 when Popen (82-92) raises: the exception leaves run(),
\* the finally pops the runner and processes the queue.
run_deployment_spawn_raises(t) ==
    /\ t \in pending
    /\ runnerStarts' = Bump(runnerStarts, t.id)
    /\ runnerExits' = Bump(runnerExits, t.id)
    /\ spawnFailed' = spawnFailed \cup {t.id}
    /\ ring' = Put(ring, t.id, started_logs(t))
    /\ process_queue_for_service(spawn_failure(deployments, t.id),
                                 pop_active(register(active, t), t.id),
                                 pending \ {t}, t.id, t.service_id)
    /\ UNCHANGED <<services, clock, config, lifecycle, request, response, now, subs>>

\* deployer.py 103: the child exits and process.wait returns its code.
child_exit(id, code) ==
    /\ id \in DOMAIN active
    /\ active[id].pc = "child"
    /\ active' = [active EXCEPT ![id].pc = "reaped", ![id].exit_code = Some(code)]
    /\ UNCHANGED <<services, deployments, clock, pending, runnerStarts,
                   runnerExits, handlerCalls, handlerSawActive, spawnFailed,
                   promotions, statusLog, config, lifecycle, request, response, now,
                   ring, subs>>

\* deployer.py 106-142 and 249-258: the readers are joined, the end line is
\* logged, the result is persisted, the runner is popped and the queue is
\* processed.
run_deployment_finish(id) ==
    /\ id \in DOMAIN active
    /\ active[id].pc = "reaped"
    /\ runnerExits' = Bump(runnerExits, id)
    /\ \E logs \in {add_log(ring[id], now, end_message(active[id].exit_code[1]),
                             "stdout")} :
       /\ ring' = Put(ring, id, logs)
       /\ \E deps \in {finalize(deployments, id, active[id].exit_code[1], clock,
                                 logs)} :
             process_queue_for_service(deps, pop_active(active, id), pending, id,
                                       active[id].service_id)
    /\ UNCHANGED <<services, clock, runnerStarts, spawnFailed, config, lifecycle, request,
                   response, now, subs>>

\* The steps of the runner task of deployment d.
RunnerStep(d) ==
    \/ \E t \in pending : t.id = d /\ run_deployment_spawn(t)
    \/ \E t \in pending : t.id = d /\ run_deployment_spawn_raises(t)
    \/ \E code \in ExitCodes : child_exit(d, code)
    \/ run_deployment_finish(d)

Next ==
    \/ \E s \in ServiceIds : handle_webhook_request(PushRequest(s))
    \/ \E s \in ServiceIds : deploy_service(s)
    \/ \E t \in pending : run_deployment_spawn(t)
    \/ \E t \in pending : run_deployment_spawn_raises(t)
    \/ \E id \in DOMAIN active, code \in ExitCodes : child_exit(id, code)
    \/ \E id \in DOMAIN active : run_deployment_finish(id)

Spec == Init /\ [][Next]_vars

\* The event loop runs every created task, every child exits and its readers
\* reach end of file.
FairSpec == Spec /\ \A d \in 1..MaxDeployments : WF_vars(RunnerStep(d))

\* ----------------------------------------------------------------- clear

\* Mutant of purge_terminal: the filter is on the rows that are not running.
purge_all_but_running(deps) ==
    [d \in {x \in DOMAIN deps : deps[x].status = "running"} |-> deps[d]]

\* main.py 508-510: the table after the delete of the success and failed rows.
purge_terminal(deps) ==
    [d \in {x \in DOMAIN deps : deps[x].status \notin {"success", "failed"}} |->
        deps[d]]

\* main.py 504-517: POST /api/deployments/clear.
clear_deployments ==
    /\ \E kept \in {purge_terminal(deployments)} :
       /\ deployments' = kept
       /\ statusLog' = Logged(statusLog, deployments, kept)
       /\ response' = Some([Response(200, "", NULL, NULL) EXCEPT !.deleted_count =
                 Some(Cardinality(DOMAIN deployments) - Cardinality(DOMAIN kept))])
    /\ UNCHANGED <<services, clock, runnerVars, config, lifecycle, request, now, subs>>

NextClear ==
    \/ \E s \in ServiceIds : deploy_service(s)
    \/ clear_deployments
    \/ \E t \in pending : run_deployment_spawn(t)
    \/ \E t \in pending : run_deployment_spawn_raises(t)
    \/ \E id \in DOMAIN active, code \in ExitCodes : child_exit(id, code)
    \/ \E id \in DOMAIN active : run_deployment_finish(id)

\* Manual triggers, runners and clear requests in any interleaving.
SpecClear == Init /\ [][NextClear]_vars

\* --------------------------------------------------------------- webhook

ContentTypes ==
    {<<"application/json">>, <<"application/json", "; charset=utf-8">>,
     <<"text/plain">>, <<>>}

Secrets == {NULL, Some(Secret)}

Signatures ==
    {NULL, Some(Signature("sha256=", Secret, "this")),
     Some(Signature("sha256=", "other", "this")),
     Some(Signature("sha256=", Secret, "other")),
     Some(Signature("sha1=", Secret, "this"))}

Repositories ==
    {Repository("missing", <<>>, "", ""), Repository("string", <<>>, "", ""),
     Repository("object", <<>>, "", ""), Repository("object", <<>>, "", "web"),
     Repository("object", ConfigOf(1).repository, "", ""),
     Repository("object", <<>>, "acme", "api"),
     Repository("object", <<"acme", "/", "other">>, "", "")}

Refs ==
    {<<>>, <<"refs/heads/">>, <<"refs/heads/", "main">>, <<"refs/heads/", "dev">>,
     <<"refs/tags/", "v1">>}

CommitLists ==
    {<<>>, <<Commit("c1", "fix")>>, <<Commit("c1", "fix"), Commit("c2", "feat")>>}

\* The payload field of a body that is not a JSON object.
NoPayload == Payload(Repository("missing", <<>>, "", ""), <<>>, <<>>)

Bodies ==
    {Body(k, NoPayload) : k \in {"empty", "not_utf8", "not_json", "array"}}
    \cup {Body("object", Payload(r, ref, c)) :
             r \in Repositories, ref \in Refs, c \in CommitLists}

Requests ==
    {Request(ct, sec, sig, b) :
        ct \in ContentTypes, sec \in Secrets, sig \in Signatures, b \in Bodies}

\* The first webhook request of a lifetime, any request.
NextIngress ==
    \E req \in Requests : request = NULL /\ handle_webhook_request(req)

SpecIngress == Init /\ [][NextIngress]_vars

\* A push for service 1 signed with the configured secret.
SignedPush ==
    [PushRequest(1) EXCEPT !.secret = Some(Secret),
                           !.signature = Some(Signature("sha256=", Secret, "this"))]

\* The pushes for the two services, and a push for service 1 spoilt in one
\* way per check of the ingress.
SampleRequests ==
    {PushRequest(1), PushRequest(2), SignedPush,
     [PushRequest(1) EXCEPT !.content_type = <<"text/plain">>],
     [PushRequest(1) EXCEPT !.body = Body("empty", NoPayload)],
     [SignedPush EXCEPT !.signature = Some(Signature("sha256=", "other", "this"))],
     [PushRequest(1) EXCEPT !.body = Body("not_json", NoPayload)],
     [PushRequest(1) EXCEPT !.body = Body("array", NoPayload)],
     [PushRequest(1) EXCEPT !.body.payload.repository =
                               Repository("missing", <<>>, "", "")],
     [PushRequest(1) EXCEPT !.body.payload.ref = <<"refs/heads/", "dev">>]}

NextWebhook ==
    \/ \E req \in SampleRequests :
          /\ clock < MaxWebhookDeployments \/ ingress_error(config, req) # NULL
          /\ handle_webhook_request(req)
    \/ \E t \in pending : run_deployment_spawn(t)
    \/ \E t \in pending : run_deployment_spawn_raises(t)
    \/ \E id \in DOMAIN active, code \in ExitCodes : child_exit(id, code)
    \/ \E id \in DOMAIN active : run_deployment_finish(id)

\* Webhook requests, accepted and rejected, in any interleaving with the
\* runners.
SpecWebhook == Init /\ [][NextWebhook]_vars

\* ------------------------------------------------------------ log streams

\* The lines a child writes: text, an empty line, a line of blanks.
\* The lines readline() gives: a line of text, an empty line, a line of
\* blanks, and the text a child leaves before the end of its output with no
\* newline after it.
ChildLines == {<<"out", "\n">>, <<"\n">>, <<" ", "\n">>, <<"tail">>}

Streams == {"stdout", "stderr"}

\* deployer.py 157-160: readline() gives a line with no newline only as the
\* last one of its pipe; the reader of that pipe has then come to its end.
at_eof(logs, stream) ==
    \E i \in 1..Len(logs) :
        /\ logs[i].stream = stream
        /\ logs[i].line[Len(logs[i].line)] # "\n"

\* deployer.py 175: the line a reader logs for an exception of readline().
error_message == <<"[ERROR] Stream read error", "\n">>

\* Mutant of stopped: the reader goes on after the exception.
stopped_never(logs, stream) == FALSE

\* deployer.py 173-177: the reader of the stream has logged an exception and
\* left its loop.
stopped(logs, stream) ==
    \E i \in 1..Len(logs) :
        /\ logs[i].stream = stream
        /\ logs[i].line = format_log_line(logs[i].timestamp, error_message)

\* deployer.py 144-177: a reader gets a line from its pipe and logs it.
read_stream(id, stream, line) ==
    /\ id \in DOMAIN active
    /\ Len(ring[id]) <= MaxLines
    /\ ~at_eof(ring[id], stream)
    /\ ~stopped(ring[id], stream)
    /\ ring' = Put(ring, id, add_log(ring[id], now, line, stream))
    /\ UNCHANGED <<services, deployments, clock, pending, active, runnerStarts,
                   runnerExits, handlerCalls, handlerSawActive, spawnFailed,
                   promotions, statusLog, config, lifecycle, request, response, now, subs>>

\* deployer.py 156 and 173-177: readline() raises, the reader logs the
\* exception on its stream and leaves its loop.
read_stream_raises(id, stream) ==
    /\ id \in DOMAIN active
    /\ ~at_eof(ring[id], stream)
    /\ ~stopped(ring[id], stream)
    /\ ring' = Put(ring, id, add_log(ring[id], now, error_message, stream))
    /\ UNCHANGED <<services, deployments, clock, pending, active, runnerStarts,
                   runnerExits, handlerCalls, handlerSawActive, spawnFailed,
                   promotions, statusLog, config, lifecycle, request, response, now, subs>>

\* Time passes on the clock datetime.now() reads.
tick ==
    /\ now < MaxNow
    /\ now' = now + 1
    /\ UNCHANGED <<services, deployments, clock, runnerVars, statusLog, config, lifecycle,
                   request, response, subs>>

\* The events of a stream: a log line, or the final status.
LogEvent(type, line) ==
    [type |-> type, line |-> line, status |-> "", exit_code |-> NULL]

StatusEvent(status, exit_code) ==
    [type |-> "status", line |-> <<>>, status |-> status, exit_code |-> exit_code]

\* main.py 310-311, 323-324: the events of a list of ring entries.
events_of(logs) == [i \in 1..Len(logs) |-> LogEvent(logs[i].stream, logs[i].line)]

RECURSIVE split(_, _)
\* str.split("\n"): the pieces of the text after the piece `piece` in progress.
split(text, piece) ==
    IF text = <<>> THEN <<piece>>
    ELSE IF Head(text) = "\n" THEN <<piece>> \o split(Tail(text), <<>>)
    ELSE split(Tail(text), Append(piece, Head(text)))

\* Mutant of parse_timestamp_from_line: no line matches the pattern.
parse_timestamp_never(line) == -1

\* main.py 346-365: the second of the "[...]" prefix, or datetime.min (-1).
parse_timestamp_from_line(line) ==
    IF Len(line) >= 3 /\ line[1] = "[" /\ line[3] = "]"
       /\ \E n \in 1..Len(SecondTexts) : SecondTexts[n] = line[2]
    THEN (CHOOSE n \in 1..Len(SecondTexts) : SecondTexts[n] = line[2]) - 1
    ELSE -1

\* main.py 368-381: the entries of one persisted text.
parsed_lines(text, type) ==
    IF text = NULL \/ text = Some(<<>>) THEN <<>>
    ELSE LET lines == SelectSeq(split(text[1], <<>>), LAMBDA l : ~IsBlank(l))
         IN  [i \in 1..Len(lines) |->
                 [timestamp |-> parse_timestamp_from_line(lines[i]),
                  stream |-> type, line |-> Append(lines[i], "\n")]]

\* main.py 338-388: the events of the stream of a deployment with no runner.
persisted_events(row) ==
    Append(events_of(sorted_by_timestamp(parsed_lines(row.stdout, "stdout")
                                         \o parsed_lines(row.stderr, "stderr"))),
           StatusEvent(row.status, row.exit_code))

\* The generator of a stream in its states: accepted (not started), replay
\* (yielding the ring as it was at the start), sleep, batch (yielding new
\* entries), status (the status event yielded), persisted (yielding the stored
\* logs), closed.
Stream(id, row) ==
    [deployment_id |-> id, row |-> row, pc |-> "accepted", live |-> FALSE,
     queue |-> <<>>, last_logs_count |-> 0, sent |-> <<>>]

\* The generator yields the first event of `events` and keeps the rest.
yield(sub, events, pc) ==
    [sub EXCEPT !.sent = Append(@, Head(events)), !.queue = Tail(events), !.pc = pc]

\* main.py 327-337: the check of the row after a poll.
check_status(sub) ==
    IF sub.deployment_id \in DOMAIN deployments
       /\ deployments[sub.deployment_id].status # "running"
    THEN yield(sub, <<StatusEvent(deployments[sub.deployment_id].status,
                                  deployments[sub.deployment_id].exit_code)>>,
               "status")
    ELSE [sub EXCEPT !.pc = "sleep"]

\* main.py 297-302, 390-398: GET /api/deployments/{id}/logs.
get_deployment_logs(id) ==
    /\ Cardinality(DOMAIN subs) < MaxStreams
    /\ IF id \notin DOMAIN deployments
       THEN /\ response' = Some(HTTPException(404, "deployment not found"))
            /\ subs' = subs
       ELSE /\ response' = Some(Response(200, "", NULL, NULL))
            /\ subs' = Put(subs, Cardinality(DOMAIN subs) + 1,
                           Stream(id, deployments[id]))
    /\ UNCHANGED <<services, deployments, clock, runnerVars, statusLog, config, lifecycle,
                   request, now>>

\* Mutant of after_sorted: the generator empties the list it has sorted.
after_sorted_emptied(logs) == <<>>

\* main.py 309: sorted() builds a new list, runner.ordered_logs is left as it
\* is.
after_sorted(logs) == logs

\* main.py 304-311 and 338-383: the generator starts and runs to its first
\* yield.
generate_logs_start(k) ==
    /\ k \in DOMAIN subs
    /\ subs[k].pc = "accepted"
    /\ \E sub \in {subs[k]} :
       \E events \in {IF sub.deployment_id \in DOMAIN active
                      THEN events_of(sorted_by_timestamp(ring[sub.deployment_id]))
                      ELSE persisted_events(sub.row)} :
          /\ subs' = Put(subs, k,
                IF sub.deployment_id \in DOMAIN active
                THEN yield([sub EXCEPT !.live = TRUE], events, "replay")
                ELSE yield(sub, events, "persisted"))
          /\ ring' = IF sub.deployment_id \in DOMAIN active
                     THEN [ring EXCEPT ![sub.deployment_id] = after_sorted(@)]
                     ELSE ring
    /\ UNCHANGED <<services, deployments, clock, pending, active, runnerStarts,
                   runnerExits, handlerCalls, handlerSawActive, spawnFailed,
                   promotions, statusLog, config, lifecycle, request, response, now>>

\* main.py 310-316, 323-337, 383-388: the consumer has sent the event and asks
\* for the next one; the generator runs to its next yield, to its sleep or to
\* its end.
generate_logs_resume(k) ==
    /\ k \in DOMAIN subs
    /\ subs[k].pc \in {"replay", "batch", "persisted", "status"}
    /\ subs' = [subs EXCEPT ![k] =
          IF subs[k].pc = "status" THEN [subs[k] EXCEPT !.pc = "closed"]
          ELSE IF subs[k].queue # <<>> THEN yield(subs[k], subs[k].queue, subs[k].pc)
          ELSE IF subs[k].pc = "persisted" THEN [subs[k] EXCEPT !.pc = "closed"]
          ELSE IF subs[k].pc = "replay"
          THEN [subs[k] EXCEPT !.pc = "sleep",
                               !.last_logs_count = Len(ring[subs[k].deployment_id])]
          ELSE check_status([subs[k] EXCEPT
                    !.last_logs_count = Len(ring[subs[k].deployment_id])])]
    /\ UNCHANGED <<services, deployments, clock, runnerVars, statusLog, config, lifecycle,
                   request, response, now>>

\* main.py 316-337: the sleep of 0.5 s ends.
generate_logs_wake(k) ==
    /\ k \in DOMAIN subs
    /\ subs[k].pc = "sleep"
    /\ subs' = [subs EXCEPT ![k] =
          IF Len(ring[subs[k].deployment_id]) > subs[k].last_logs_count
          THEN yield(subs[k],
                     events_of(sorted_by_timestamp(
                         SubSeq(ring[subs[k].deployment_id],
                                subs[k].last_logs_count + 1,
                                Len(ring[subs[k].deployment_id])))),
                     "batch")
          ELSE check_status(subs[k])]
    /\ UNCHANGED <<services, deployments, clock, runnerVars, statusLog, config, lifecycle,
                   request, response, now>>

\* main.py 304-388: the consumer of stream k goes away or fails; the generator
\* is closed where it stands, at a yield or in its sleep.
disconnect(k) ==
    /\ k \in DOMAIN subs
    /\ subs[k].pc # "closed"
    /\ subs' = [subs EXCEPT ![k].pc = "closed"]
    /\ UNCHANGED <<services, deployments, clock, runnerVars, statusLog, config, lifecycle,
                   request, response, now>>

\* The steps of the generator of stream k.
StreamStep(k) ==
    \/ generate_logs_start(k)
    \/ generate_logs_resume(k)
    \/ generate_logs_wake(k)

NextLogs ==
    \/ clock < MaxLogDeployments /\ deploy_service(1)
    \/ clear_deployments
    \/ \E t \in pending : run_deployment_spawn(t)
    \/ \E t \in pending : run_deployment_spawn_raises(t)
    \/ \E id \in DOMAIN active, stream \in Streams, line \in ChildLines :
          read_stream(id, stream, line)
    \/ \E id \in DOMAIN active, code \in ExitCodes : child_exit(id, code)
    \/ \E id \in DOMAIN active : run_deployment_finish(id)
    \/ \E id \in 1..MaxLogDeployments : get_deployment_logs(id)
    \/ \E k \in DOMAIN subs : generate_logs_start(k)
    \/ \E k \in DOMAIN subs : generate_logs_resume(k)
    \/ \E k \in DOMAIN subs : generate_logs_wake(k)

\* Log streams in any interleaving with a runner, its readers and clear
\* requests.
SpecLogs == Init /\ [][NextLogs]_vars

\* The event loop runs every task and every generator whose consumer keeps
\* reading, and every child exits.
FairSpecLogs ==
    /\ SpecLogs
    /\ \A d \in 1..MaxLogDeployments : WF_vars(RunnerStep(d))
    /\ \A k \in 1..MaxStreams : WF_vars(StreamStep(k))

NextReplay ==
    \/ deployments = <<>> /\ deploy_service(1)
    \/ tick
    \/ \E t \in pending : run_deployment_spawn(t)
    \/ \E id \in DOMAIN active, stream \in Streams, line \in ChildLines :
          read_stream(id, stream, line)
    \/ \E id \in DOMAIN active, code \in ExitCodes : child_exit(id, code)
    \/ \E id \in DOMAIN active : run_deployment_finish(id)
    \/ \E id \in DOMAIN deployments :
          /\ deployments[id].status \in Terminal
          /\ subs = <<>>
          /\ get_deployment_logs(id)
    \/ \E k \in DOMAIN subs : generate_logs_start(k)
    \/ \E k \in DOMAIN subs : generate_logs_resume(k)

\* The log stream of the first deployment of a service, opened after the
\* deployment finished, its lines written while the clock advanced.
SpecReplay == Init /\ [][NextReplay]_vars

NextSubscribers ==
    \/ deployments = <<>> /\ deploy_service(1)
    \/ \E t \in pending : run_deployment_spawn(t)
    \/ \E t \in pending : run_deployment_spawn_raises(t)
    \/ \E stream \in Streams : read_stream(1, stream, <<"out", "\n">>)
    \/ \E id \in DOMAIN active, code \in ExitCodes : child_exit(id, code)
    \/ \E id \in DOMAIN active : run_deployment_finish(id)
    \/ get_deployment_logs(1)
    \/ \E k \in DOMAIN subs : generate_logs_start(k)
    \/ \E k \in DOMAIN subs : generate_logs_resume(k)
    \/ \E k \in DOMAIN subs : generate_logs_wake(k)
    \/ \E k \in DOMAIN subs : disconnect(k)

\* The runner of the first deployment in any interleaving with the log
\* streams of that deployment, which are opened, polled and abandoned.
SpecSubscribers == Init /\ [][NextSubscribers]_vars

\* ----------------------------------------------- startup reconciliation

\* A second definition of the service web: the same name and repository,
\* another branch and another command.
WebDev ==
    ServiceConfig("web", <<"acme", "/", "web">>, <<"/srv/", "web">>, <<"dev">>,
                  "deploy-web-dev")

\* A definition of a service no configuration file read at startup has.
Retired ==
    ServiceConfig("old", <<"acme", "/", "old">>, <<"/srv/", "old">>, <<"main">>,
                  "deploy-old")

\* The configuration files load_config reads: lists of definitions, the empty
\* list and lists with two definitions of one name among them.
Configs ==
    UNION {[1..n -> {ConfigOf(1), ConfigOf(2), WebDev}] : n \in 0..MaxDefinitions}

\* The ids of the stored services.
StoredIds == {1, 2, 3}

\* The rows earlier runs stored: rows of definitions that were configured then.
StoredRows == {ServiceOf(c) : c \in {ConfigOf(1), ConfigOf(2), WebDev, Retired}}

\* models.py 13: the names of the rows of table services are unique.
StoredServices ==
    {svcs \in UNION {[ids -> StoredRows] : ids \in SUBSET StoredIds} :
        \A a, b \in DOMAIN svcs : svcs[a].name = svcs[b].name => a = b}

\* The deployments earlier runs left for the stored services.
StoredDeployments(svcs) ==
    UNION {[1..n -> {NewDeployment(sid, "success", 0, NULL, NULL, <<"main">>,
                                   "webhook") : sid \in DOMAIN svcs}] :
           n \in 0..MaxStoredDeployments}

\* main.py 32
config_service_names(cfg) == {cfg[i].name : i \in 1..Len(cfg)}

\* main.py 39-40: the ids of the stored services no definition names.
absent_services(svcs, cfg) ==
    {s \in DOMAIN svcs : svcs[s].name \notin config_service_names(cfg)}

\* Mutant of delete_deployments_of: the deployments are left.
delete_deployments_of_none(deps, sids) == deps

\* Mutant of delete_deployments_of: the rows that are not finished are deleted
\* as well.
delete_deployments_of_unfinished(deps, sids) ==
    [d \in {x \in DOMAIN deps : deps[x].service_id \notin sids
                                 /\ deps[x].status \in Terminal} |-> deps[d]]

\* main.py 42: db.query(Deployment).filter(service_id == id).delete()
delete_deployments_of(deps, sids) ==
    [d \in {x \in DOMAIN deps : deps[x].service_id \notin sids} |-> deps[d]]

\* main.py 44: db.delete(db_service)
delete_services(svcs, sids) == [s \in DOMAIN svcs \ sids |-> svcs[s]]

RECURSIVE upsert_all(_, _)
\* main.py 47-63: the definitions are inserted or written over their rows, in
\* the order of the file.
upsert_all(svcs, cfg) ==
    IF cfg = <<>> THEN svcs
    ELSE upsert_all(upsert_service(svcs, Head(cfg)), Tail(cfg))

\* main.py 48-58 for a file that has two definitions of a name with no row:
\* whether the query for the second sees the row added for the first is the
\* autoflush setting of the session (pushbot/database.py); if it does not, a
\* second row of the name is added and the commit (main.py 64) fails on the
\* unique index of models.py 13.
adds_twice(svcs, cfg) ==
    \E i, j \in 1..Len(cfg) :
        /\ i < j
        /\ cfg[i].name = cfg[j].name
        /\ service_by_name(svcs, cfg[i].name) = NULL

\* main.py 20-67: the startup of the application, reading the file `file`.
lifespan(file) ==
    /\ lifecycle = "starting"
    /\ config' = file
    /\ \E absent \in {absent_services(services, file)} :
          \/ /\ services' = upsert_all(delete_services(services, absent), file)
             /\ deployments' = delete_deployments_of(deployments, absent)
             /\ lifecycle' = "serving"
          \/ /\ adds_twice(services, file)
             /\ lifecycle' = "failed"
             /\ UNCHANGED <<services, deployments>>
    /\ statusLog' = Logged(statusLog, deployments, deployments')
    /\ UNCHANGED <<clock, runnerVars, request, response, now, subs>>

\* The application before its startup, over the tables earlier runs left.
InitReconcile ==
    /\ services \in StoredServices
    /\ deployments \in StoredDeployments(services)
    /\ clock = Cardinality(DOMAIN deployments)
    /\ pending = {}
    /\ active = <<>>
    /\ runnerStarts = <<>>
    /\ runnerExits = <<>>
    /\ handlerCalls = <<>>
    /\ handlerSawActive = {}
    /\ spawnFailed = {}
    /\ promotions = <<>>
    /\ statusLog = [d \in DOMAIN deployments |-> <<deployments[d].status>>]
    /\ config = <<>>
    /\ lifecycle = "starting"
    /\ request = NULL
    /\ response = NULL
    /\ now = 0
    /\ ring = <<>>
    /\ subs = <<>>

NextReconcile == \E file \in Configs : lifespan(file)

\* The startup of the application over any stored tables and any file.
SpecReconcile == InitReconcile /\ [][NextReconcile]_vars

\* The deployments a process that ended with work in hand left: finished
\* rows, for a service at most one running row, and queued rows only behind a
\* running row of their service.
LeftDeployments(svcs) ==
    {deps \in UNION {[1..n -> {NewDeployment(sid, status, 0, NULL, NULL, <<"main">>,
                                             "webhook") :
                                 sid \in DOMAIN svcs,
                                 status \in {"success", "running", "queued"}}] :
                     n \in 0..MaxStoredDeployments} :
        \A d \in DOMAIN deps :
           /\ deps[d].status = "running" =>
                 \A e \in DOMAIN deps :
                    (deps[e].status = "running"
                       /\ deps[e].service_id = deps[d].service_id) => e = d
           /\ deps[d].status = "queued" =>
                 \E e \in 1..(d - 1) :
                    /\ deps[e].status = "running"
                    /\ deps[e].service_id = deps[d].service_id}

\* The application before its startup, over the tables of a process that
\* ended with deployments running and queued.
InitRestart ==
    /\ services \in StoredServices
    /\ deployments \in LeftDeployments(services)
    /\ clock = Cardinality(DOMAIN deployments)
    /\ pending = {}
    /\ active = <<>>
    /\ runnerStarts = <<>>
    /\ runnerExits = <<>>
    /\ handlerCalls = <<>>
    /\ handlerSawActive = {}
    /\ spawnFailed = {}
    /\ promotions = <<>>
    /\ statusLog = [d \in DOMAIN deployments |-> <<deployments[d].status>>]
    /\ config = <<>>
    /\ lifecycle = "starting"
    /\ request = NULL
    /\ response = NULL
    /\ now = 0
    /\ ring = <<>>
    /\ subs = <<>>

\* The startup of the application after a process that ended with work in
\* hand.
SpecRestart == InitRestart /\ [][NextReconcile]_vars

\* ----------------------------------------------------- process lifetime

NextLifetime ==
    \/ \E file \in Configs : lifespan(file)
    \/ /\ lifecycle = "serving"
       /\ \/ \E s \in ServiceIds :
                request = NULL /\ handle_webhook_request(PushRequest(s))
          \/ \E s \in DOMAIN services \cup {NewServiceId(services)} : deploy_service(s)
          \/ clear_deployments

\* A process lifetime over the tables an earlier one left: the startup, then
\* the requests that insert or delete rows (one push, manual triggers and
\* clear requests) in any order.
SpecLifetime == InitRestart /\ [][NextLifetime]_vars

\* ------------------------------------------------------- manual triggers

NextManual ==
    \/ \E s \in ServiceIds \cup {NewServiceId(services)} : deploy_service(s)
    \/ \E t \in pending : run_deployment_spawn(t)
    \/ \E t \in pending : run_deployment_spawn_raises(t)
    \/ \E id \in DOMAIN active, code \in ExitCodes : child_exit(id, code)
    \/ \E id \in DOMAIN active : run_deployment_finish(id)

\* Manual triggers for the two services and for an id no service has, in any
\* interleaving with the runners.
SpecManual == Init /\ [][NextManual]_vars

\* ------------------------------------------------------------- promotion

\* A configuration file with two definitions of the service web, one per
\* branch.
TwoBranchConfig == <<ConfigOf(1), WebDev>>

\* The push of one commit to a branch of the repository of web.
PushTo(branch) ==
    [PushRequest(1) EXCEPT !.body.payload.ref = <<"refs/heads/">> \o branch]

\* The application after a startup that read TwoBranchConfig over the row an
\* earlier run stored for web.
InitPromote ==
    /\ services = upsert_all([s \in {1} |-> ServiceRow(s)], TwoBranchConfig)
    /\ deployments = <<>>
    /\ clock = 0
    /\ pending = {}
    /\ active = <<>>
    /\ runnerStarts = <<>>
    /\ runnerExits = <<>>
    /\ handlerCalls = <<>>
    /\ handlerSawActive = {}
    /\ spawnFailed = {}
    /\ promotions = <<>>
    /\ statusLog = <<>>
    /\ config = TwoBranchConfig
    /\ lifecycle = "serving"
    /\ request = NULL
    /\ response = NULL
    /\ now = 0
    /\ ring = <<>>
    /\ subs = <<>>

NextPromote ==
    \/ \E branch \in {<<"main">>, <<"dev">>} : handle_webhook_request(PushTo(branch))
    \/ deploy_service(1)
    \/ \E t \in pending : run_deployment_spawn(t)
    \/ \E t \in pending : run_deployment_spawn_raises(t)
    \/ \E id \in DOMAIN active, code \in ExitCodes : child_exit(id, code)
    \/ \E id \in DOMAIN active : run_deployment_finish(id)

\* Pushes to the two branches of web and manual triggers, in any interleaving
\* with the runners.
SpecPromote == InitPromote /\ [][NextPromote]_vars

\* ----------------------------------------------------------- read errors

NextReadError ==
    \/ clock < MaxErrorDeployments /\ deploy_service(1)
    \/ \E t \in pending : run_deployment_spawn(t)
    \/ \E t \in pending : run_deployment_spawn_raises(t)
    \/ \E stream \in Streams : read_stream(1, stream, <<"out", "\n">>)
    \/ \E stream \in Streams : read_stream_raises(1, stream)
    \/ \E id \in DOMAIN active, code \in ExitCodes : child_exit(id, code)
    \/ \E id \in DOMAIN active : run_deployment_finish(id)

\* Deployments of one service; the child of the first one writes lines and
\* its readers may fail, the children of the others write nothing.
SpecReadError == Init /\ [][NextReadError]_vars

\* -------------------------------------------------------------- shutdown

\* deployer.py 179-186: the runner after stop(): a child that has not exited
\* is terminated and reaped, code -15 for SIGTERM.
stop(runner) ==
    IF runner.pc = "child"
    THEN [runner EXCEPT !.pc = "reaped", !.exit_code = Some(-15)]
    ELSE runner

\* main.py 66-67: the lifespan resumes behind its yield, where there is no
\* statement, and the process ends; the children are other processes.
shutdown ==
    /\ lifecycle = "serving"
    /\ lifecycle' = "stopped"
    /\ UNCHANGED <<services, deployments, clock, runnerVars, statusLog, config,
                   request, response, now, subs>>

NextShutdown ==
    \/ shutdown
    \/ /\ lifecycle = "serving"
       /\ \/ \E s \in ServiceIds : deploy_service(s)
          \/ \E t \in pending : run_deployment_spawn(t)
          \/ \E t \in pending : run_deployment_spawn_raises(t)
          \/ \E id \in DOMAIN active, code \in ExitCodes : child_exit(id, code)
          \/ \E id \in DOMAIN active : run_deployment_finish(id)

\* A process lifetime that ends with a shutdown.
SpecShutdown == Init /\ [][NextShutdown]_vars

\* ------------------------------------------------------------- push refs

\* The pieces a ref is made of.
RefTokens == {"refs/heads/", "refs/tags/", "main", "dev"}

SeqsUpTo(S, n) == UNION {[1..k -> S] : k \in 0..n}

PushRefs == SeqsUpTo(RefTokens, MaxRefLen)

\* A push to the repository of service s with the field ref as given.
PushOf(s, ref) == [PushRequest(s) EXCEPT !.body.payload.ref = ref]

\* The first webhook request of a lifetime, a push with any ref.
NextRefs ==
    \E s \in ServiceIds, ref \in PushRefs :
        request = NULL /\ handle_webhook_request(PushOf(s, ref))

SpecRefs == Init /\ [][NextRefs]_vars

\* --------------------------------------------------------------- listing

\* The elements of a set of ids, in ascending order.
Ascending(S) ==
    [i \in 1..Cardinality(S) |->
        CHOOSE x \in S : Cardinality({y \in S : y < x}) = i - 1]

\* main.py 260-273, 278-292: the entry of a row in the listing.
ListEntry(deps, svcs, d) ==
    [id |-> d, service_id |-> deps[d].service_id,
     service_name |-> IF deps[d].service_id \in DOMAIN svcs
                      THEN svcs[deps[d].service_id].name ELSE "Unknown",
     status |-> deps[d].status]

\* main.py 255-293: the rows of the runners in the active map, then the
\* queued rows.
active_deployments_list(act, deps, svcs) ==
    LET of_runners == Ascending(DOMAIN act \cap DOMAIN deps)
        queued == Ascending({d \in DOMAIN deps : deps[d].status = "queued"})
    IN  [i \in 1..Len(of_runners) |-> ListEntry(deps, svcs, of_runners[i])]
        \o [i \in 1..Len(queued) |-> ListEntry(deps, svcs, queued[i])]

\* main.py 252-294: GET /api/deployments/active.
get_active_deployments ==
    /\ response' = Some([status |-> 200,
                         active_deployments |->
                             active_deployments_list(active, deployments, services)])
    /\ UNCHANGED <<services, deployments, clock, runnerVars, statusLog, config,
                   lifecycle, request, now, subs>>

NextListing ==
    \/ \E s \in ServiceIds : deploy_service(s)
    \/ get_active_deployments
    \/ \E t \in pending : run_deployment_spawn(t)
    \/ \E t \in pending : run_deployment_spawn_raises(t)
    \/ \E id \in DOMAIN active, code \in ExitCodes : child_exit(id, code)
    \/ \E id \in DOMAIN active : run_deployment_finish(id)

\* Requests for the listing in any interleaving with manual triggers and
\* runners.
SpecListing == Init /\ [][NextListing]_vars

\* ---------------------------------------------------------------- claims

RowsOf(s) == {d \in DOMAIN deployments : deployments[d].service_id = s}

RunningOf(s) == {d \in RowsOf(s) : deployments[d].status = "running"}

IsTerminal(d) == deployments[d].status \in Terminal

\* C1: every service has at most one deployment row with status running, also
\* after a runner that failed to spawn its child.
C1_AtMostOneRunning ==
    \A s \in ServiceIds : Cardinality(RunningOf(s)) <= 1

\* C2: the active map never holds two runners of the same service, no runner
\* task of a service waits to start while a runner of that service is active,
\* and while a runner is active every other runner ever started for its
\* service has exited.
C2_RunnersSerial ==
    /\ \A a, b \in DOMAIN active :
          active[a].service_id = active[b].service_id => a = b
    /\ \A a \in DOMAIN active : \A t \in pending :
          t.service_id # active[a].service_id
    /\ \A t, u \in pending : t.service_id = u.service_id => t = u
    /\ \A a \in DOMAIN active :
          /\ active[a].service_id = deployments[a].service_id
          /\ \A b \in RowsOf(active[a].service_id) \ {a} :
                Count(runnerStarts, b) = Count(runnerExits, b)

\* C2 witness: a second runner of a service is active after the first one of
\* that service has exited.
C2_Witness ==
    \E a \in DOMAIN active : \E b \in RowsOf(active[a].service_id) \ {a} :
        Count(runnerExits, b) = 1

\* C3: a step that creates a deployment creates it queued exactly when the
\* service had a running row before the step, creates a runner task for it
\* exactly when it is created running, and changes no other row.
C3_EnqueueRule ==
    [][\A id \in DOMAIN deployments' \ DOMAIN deployments :
          LET s == deployments'[id].service_id
              had == \E d \in DOMAIN deployments :
                        /\ deployments[d].service_id = s
                        /\ deployments[d].status = "running"
          IN  /\ deployments'[id].status = IF had THEN "queued" ELSE "running"
              /\ (\E t \in pending' \ pending : t.id = id) <=> ~had
              /\ \A t \in pending' \ pending : t.id = id /\ t.service_id = s
              /\ \A d \in DOMAIN deployments : deployments'[d] = deployments[d]
      ]_vars

\* C3 witness: a service holds a running row and a row created queued behind
\* it, while the other service holds a row created running with its task.
C3_Witness ==
    /\ \E q, r \in DOMAIN deployments :
          /\ deployments[q].service_id = deployments[r].service_id
          /\ deployments[q].status = "queued"
          /\ deployments[r].status = "running"
          /\ r < q
    /\ \E t \in pending : deployments[t.id].status = "running"

\* The status sequences of the walk queued -> running -> success | failed.
StatusWalks ==
    {<<"queued">>, <<"queued", "running">>, <<"running">>}
    \cup {<<"queued", "running", x>> : x \in Terminal}
    \cup {<<"running", x>> : x \in Terminal}

\* C4: the statuses written to a row over its lifetime form a prefix of
\* queued -> running -> success | failed, starting at queued or at running,
\* and the row holds the last of them; so no other transition occurs and a
\* terminal status never changes.
C4_StatusWalk ==
    \A d \in DOMAIN deployments :
        /\ statusLog[d] \in StatusWalks
        /\ deployments[d].status = statusLog[d][Len(statusLog[d])]

\* C4 witness: one row went queued, running, failed and another row went
\* running, success.
C4_Witness ==
    \E a, b \in DOMAIN deployments :
        /\ statusLog[a] = <<"queued", "running", "failed">>
        /\ statusLog[b] = <<"running", "success">>

\* C5: finished_at is set exactly on the terminal rows, a terminal row has an
\* exit code, and queued and running rows have neither.
C5_FinishedIffTerminal ==
    \A d \in DOMAIN deployments :
        /\ (deployments[d].finished_at # NULL) <=> IsTerminal(d)
        /\ IsTerminal(d) => deployments[d].exit_code # NULL
        /\ ~IsTerminal(d) => deployments[d].exit_code = NULL

\* C5 witness: a success row, a failed row and a row that is not terminal exist.
C5_Witness ==
    \E a, b, c \in DOMAIN deployments :
        /\ deployments[a].status = "success"
        /\ deployments[b].status = "failed"
        /\ deployments[c].status \in {"queued", "running"}

\* C6: a step that promotes a row promotes a row of least started_at among
\* the queued rows of its service.
C6_PromotesOldest ==
    [][\A d \in DOMAIN deployments \cap DOMAIN deployments' :
          (deployments[d].status = "queued" /\ deployments'[d].status = "running")
          => \A e \in DOMAIN deployments :
                (/\ deployments[e].service_id = deployments[d].service_id
                 /\ deployments[e].status = "queued")
                => deployments[d].started_at <= deployments[e].started_at
      ]_vars

\* C6 witness: two rows of one service were promoted one after the other, the
\* first while the second was waiting behind it.
C6_Witness ==
    /\ Len(promotions) >= 2
    /\ deployments[promotions[1]].service_id = deployments[promotions[2]].service_id
    /\ deployments[promotions[1]].started_at < deployments[promotions[2]].started_at

\* C7: under fair scheduling of the runner tasks, every queued row eventually
\* reaches a terminal status.
C7_QueuedEventuallyTerminal ==
    \A d \in 1..MaxDeployments :
        (d \in DOMAIN deployments /\ deployments[d].status = "queued")
        ~> (d \in DOMAIN deployments /\ IsTerminal(d))

\* C8: at most one runner is ever started for a deployment id, and at most one
\* runner task exists for it.
C8_AtMostOneRunner ==
    \A d \in DOMAIN deployments :
        Count(runnerStarts, d) + Cardinality({t \in pending : t.id = d}) <= 1

\* C8 witness: a failed deployment had its one runner, and a row promoted
\* after it had its one runner too.
C8_Witness ==
    \E f \in DOMAIN deployments : \E i \in 1..Len(promotions) :
        /\ deployments[f].status = "failed"
        /\ Count(runnerStarts, f) = 1
        /\ deployments[promotions[i]].service_id = deployments[f].service_id
        /\ Count(runnerStarts, promotions[i]) = 1

\* C9: a deployment whose spawn failed is failed with exit code -1 and
\* finished_at set.
C9_SpawnFailureIsFailed ==
    \A d \in spawnFailed \cap DOMAIN deployments :
        /\ deployments[d].status = "failed"
        /\ deployments[d].exit_code = Some(-1)
        /\ deployments[d].finished_at # NULL

\* C10: the completion handler has run once for every runner exit, every
\* started runner is either active or has exited once, and the handler never
\* ran for a runner that was still in the active map.
C10_HandlerOncePerExit ==
    /\ \A d \in DOMAIN deployments :
          /\ Count(handlerCalls, d) = Count(runnerExits, d)
          /\ Count(runnerStarts, d) =
                Count(runnerExits, d) + (IF d \in DOMAIN active THEN 1 ELSE 0)
    /\ handlerSawActive = {}

\* C10 witness: one runner left by the exception of a failed spawn and one by
\* a normal return, and the handler ran once for each.
C10_Witness ==
    \E a, b \in DOMAIN deployments :
        /\ a \in spawnFailed
        /\ IsTerminal(b)
        /\ Count(handlerCalls, a) = 1
        /\ Count(handlerCalls, b) = 1

\* A step that deletes rows, or that answers with a deleted_count.
IsClearStep ==
    \/ DOMAIN deployments' # DOMAIN deployments
       /\ DOMAIN deployments' \subseteq DOMAIN deployments
    \/ response' # response /\ response'[1].deleted_count # NULL

\* C11: a clear request deletes exactly the rows with status success or
\* failed and answers with their number; the queued and running rows, the
\* active map, the runner tasks and the services are as before, whatever the
\* enqueues and the runners did before it.
C11_ClearFrame ==
    [][IsClearStep =>
          /\ DOMAIN deployments' = {d \in DOMAIN deployments : ~IsTerminal(d)}
          /\ \A d \in DOMAIN deployments' : deployments'[d] = deployments[d]
          /\ response'[1].deleted_count =
                Some(Cardinality({d \in DOMAIN deployments : IsTerminal(d)}))
          /\ UNCHANGED <<services, active, pending>>
      ]_vars

\* C11 witness: a clear request deleted a terminal row while a runner was
\* active and a row was queued behind it, and both rows are still there.
C11_Witness ==
    /\ response # NULL
    /\ response[1].deleted_count = Some(1)
    /\ \E r \in DOMAIN active : \E q \in DOMAIN deployments :
          /\ deployments[r].status = "running"
          /\ deployments[q].status = "queued"
          /\ \E gone \in 1..clock : gone < r /\ gone \notin DOMAIN deployments

\* The checks of the webhook ingress, each on its own.
PassesContentType(req) ==
    \E i \in 1..Len(req.content_type) : req.content_type[i] = "application/json"

PassesBody(req) == req.body.kind # "empty"

PassesSignature(req) ==
    req.secret # NULL =>
        /\ req.signature # NULL
        /\ req.signature[1] = Signature("sha256=", req.secret[1], "this")

PassesParse(req) ==
    /\ req.body.kind = "object"
    /\ req.body.payload.repository.kind = "object"
    /\ \/ req.body.payload.repository.full_name # <<>>
       \/ req.body.payload.repository.owner # "" /\ req.body.payload.repository.name # ""
    /\ Len(req.body.payload.ref) >= 2
    /\ req.body.payload.ref[1] = "refs/heads/"

PassesLookup(req) ==
    \E i \in 1..Len(config) :
        /\ config[i].repository = repository_full_name(req.body.payload.repository)
        /\ <<"refs/heads/">> \o config[i].branch = req.body.payload.ref

PassesAll(req) ==
    /\ PassesContentType(req)
    /\ PassesBody(req)
    /\ PassesSignature(req)
    /\ PassesParse(req)
    /\ PassesLookup(req)

\* A step that handles a webhook request.
IsWebhookStep == request' # request \/ response' # response

\* C12: a webhook request that fails a check, or that is answered with an
\* error, is answered 400 or 401, creates no deployment row and no runner
\* task, starts no runner and leaves every deployment row and every service
\* row as it was.
C12_RejectedChangesNothing ==
    [][(IsWebhookStep /\ (~PassesAll(request'[1]) \/ response'[1].status # 200))
          => /\ response'[1].status \in {400, 401}
             /\ response'[1].deployment_id = NULL
             /\ UNCHANGED <<deployments, services, pending, active, runnerStarts,
                            ring, clock>>
      ]_vars

\* C12 witness: a request with a wrong signature was rejected while one
\* deployment was running with its runner and another was queued behind it.
C12_Witness ==
    /\ response # NULL
    /\ response[1].status = 401
    /\ \E r \in DOMAIN active : \E q \in DOMAIN deployments :
          deployments[r].status = "running" /\ deployments[q].status = "queued"

\* C13: the response is that of the first failing check in the order content
\* type, body, signature (when a secret is set), parse and shape, lookup: 401
\* for the signature and 400 for the others; a deployment is created exactly
\* when every check passes.
C13_FirstFailingCheck ==
    request # NULL =>
        LET req == request[1]
            r == response[1]
        IN  /\ ~PassesContentType(req) => r.status = 400 /\ r.detail = "content type"
            /\ (PassesContentType(req) /\ ~PassesBody(req))
                  => r.status = 400 /\ r.detail = "empty body"
            /\ (PassesContentType(req) /\ PassesBody(req) /\ ~PassesSignature(req))
                  => r.status = 401 /\ r.detail = "signature"
            /\ (/\ PassesContentType(req) /\ PassesBody(req) /\ PassesSignature(req)
                 /\ ~PassesParse(req))
                  => /\ r.status = 400
                     /\ r.detail \in {"utf-8", "json", "not an object", "repository",
                                      "ref", "undetermined"}
            /\ (/\ PassesContentType(req) /\ PassesBody(req) /\ PassesSignature(req)
                 /\ PassesParse(req) /\ ~PassesLookup(req))
                  => r.status = 400 /\ r.detail = "not found"
            /\ PassesAll(req) <=> r.status = 200
            /\ PassesAll(req) <=> DOMAIN deployments # {}

\* C13 witness: a request with a wrong signature and a body that is not JSON
\* was answered 401.
C13_Witness ==
    /\ request # NULL
    /\ request[1].secret # NULL
    /\ request[1].signature = Some(Signature("sha256=", "other", "this"))
    /\ request[1].body.kind = "not_json"
    /\ response[1].status = 401

\* The log events a stream has sent, without its status events.
SentLogs(k) == SelectSeq(subs[k].sent, LAMBDA e : e.type # "status")

SentStatuses(k) == SelectSeq(subs[k].sent, LAMBDA e : e.type = "status")

IsPrefix(a, b) == Len(a) <= Len(b) /\ SubSeq(b, 1, Len(a)) = a

\* C14: a stream attached to a live runner sends the entries of the ring in
\* their order, none skipped and none twice, and by the time it sends the
\* status event it has sent every entry of the ring.
C14_EveryEntryOnce ==
    \A k \in DOMAIN subs :
        subs[k].live =>
            /\ IsPrefix(SentLogs(k), events_of(ring[subs[k].deployment_id]))
            /\ SentStatuses(k) # <<>> =>
                  SentLogs(k) = events_of(ring[subs[k].deployment_id])

\* C15: every stream sends at most one status event and nothing after it, a
\* stream attached to a live runner sends it with a terminal status, and
\* every stream comes to its end having sent it.
C15_OneFinalStatus ==
    \A k \in 1..MaxStreams :
        /\ [](k \in DOMAIN subs =>
                /\ Len(SentStatuses(k)) <= 1
                /\ SentStatuses(k) # <<>> =>
                      subs[k].sent[Len(subs[k].sent)].type = "status"
                /\ (subs[k].live /\ SentStatuses(k) # <<>>) =>
                      SentStatuses(k)[1].status \in Terminal)
        /\ (k \in DOMAIN subs) ~>
               (/\ k \in DOMAIN subs
                /\ subs[k].pc = "closed"
                /\ Len(SentStatuses(k)) = 1)

\* C16: a stream attached to a live runner whose runner has exited
\* eventually sends its status event and closes, also when the row is deleted
\* by a clear request after it became terminal.
C16_LiveStreamCloses ==
    \A k \in 1..MaxStreams :
        (/\ k \in DOMAIN subs
         /\ subs[k].live
         /\ Count(runnerExits, subs[k].deployment_id) > 0)
        ~> (/\ k \in DOMAIN subs
            /\ subs[k].pc = "closed"
            /\ subs[k].sent[Len(subs[k].sent)].type = "status")

\* The second the "[..]" prefix of a sent line reads.
PrefixSecond(line) == CHOOSE n \in 0..(Len(SecondTexts) - 1) : SecondTexts[n + 1] = line[2]

\* The lines the runner of deployment id produced on one stream, in the order
\* it produced them.
Produced(id, stream) ==
    LET lines == OfStream(ring[id], stream)
    IN  [i \in 1..Len(lines) |-> lines[i].line]

\* The lines a stream has sent with one type.
SentLines(k, type) ==
    LET events == SelectSeq(subs[k].sent, LAMBDA e : e.type = type)
    IN  [i \in 1..Len(events) |-> events[i].line]

EndsLine(text) == text # <<>> /\ text[Len(text)] = "\n"

\* A stream of stored logs that has come to its end for a finished deployment.
IsReplayed(k) ==
    /\ ~subs[k].live
    /\ subs[k].pc = "closed"
    /\ subs[k].row.status \in Terminal

\* C17: the stream of a finished deployment with no runner sends the stored
\* lines of stdout and of stderr, each stream's lines in the order the runner
\* produced them, merged so that the seconds of their prefixes never decrease,
\* and the status event after them.
C17_ReplayIsStableMerge ==
    \A k \in DOMAIN subs :
        IsReplayed(k) =>
            /\ \A stream \in Streams :
                  LET text == Join(Produced(subs[k].deployment_id, stream))
                  IN  /\ subs[k].row[stream] = Some(text)
                      /\ Join(SentLines(k, stream)) =
                            IF text = <<>> \/ EndsLine(text) THEN text
                            ELSE Append(text, "\n")
                      /\ (\A i \in 1..Len(Produced(subs[k].deployment_id, stream)) :
                              EndsLine(Produced(subs[k].deployment_id, stream)[i]))
                            => SentLines(k, stream) =
                                  Produced(subs[k].deployment_id, stream)
            /\ \A i, j \in 1..Len(SentLogs(k)) :
                  i < j => PrefixSecond(SentLogs(k)[i].line)
                             <= PrefixSecond(SentLogs(k)[j].line)
            /\ SentStatuses(k) = <<StatusEvent(subs[k].row.status,
                                               subs[k].row.exit_code)>>
            /\ subs[k].sent[Len(subs[k].sent)].type = "status"

\* A replay that put a stderr line between two stdout lines of different
\* seconds.
C17_Witness ==
    \E k \in DOMAIN subs :
        /\ IsReplayed(k)
        /\ \E i \in 1..(Len(SentLogs(k)) - 2) :
              /\ SentLogs(k)[i].type = "stdout"
              /\ SentLogs(k)[i + 1].type = "stderr"
              /\ SentLogs(k)[i + 2].type = "stdout"
              /\ PrefixSecond(SentLogs(k)[i].line)
                    < PrefixSecond(SentLogs(k)[i + 2].line)

\* The last definition of a name in a configuration file.
last_definition(cfg, name) ==
    cfg[Max({i \in 1..Len(cfg) : cfg[i].name = name})]

\* C18: after the startup the stored names are the configured names; a
\* service no definition names is gone with all its deployments; a service a
\* definition names keeps its id and has the fields of that definition (of the
\* last one, if the file defines the name twice); the deployments of the
\* services that stay are left as they were.
C18_Reconciled ==
    [][(lifecycle = "starting" /\ lifecycle' = "serving") =>
          /\ {services'[s].name : s \in DOMAIN services'} = config_service_names(config')
          /\ \A a, b \in DOMAIN services' :
                services'[a].name = services'[b].name => a = b
          /\ \A s \in DOMAIN services :
                IF services[s].name \in config_service_names(config')
                THEN /\ s \in DOMAIN services'
                     /\ services'[s] =
                           ServiceOf(last_definition(config', services[s].name))
                     /\ \A d \in DOMAIN deployments :
                           deployments[d].service_id = s =>
                              /\ d \in DOMAIN deployments'
                              /\ deployments'[d] = deployments[d]
                ELSE \A d \in DOMAIN deployments :
                        deployments[d].service_id = s => d \notin DOMAIN deployments'
          /\ DOMAIN deployments' \subseteq DOMAIN deployments
      ]_vars

\* A startup that deleted deployments, kept others, and left web under an id
\* that is not its place in the file, with the fields of its definition.
C18_Witness ==
    /\ lifecycle = "serving"
    /\ deployments # <<>>
    /\ clock > Cardinality(DOMAIN deployments)
    /\ Len(config) = 2
    /\ \E s \in DOMAIN services :
          /\ s = 3
          /\ services[s] = ServiceOf(ConfigOf(1))
          /\ config[1] = ConfigOf(1)

\* The rows a step creates.
Created == DOMAIN deployments' \ DOMAIN deployments

\* The row a manual trigger creates, with the commit message `message`.
ManualRow(d, message) ==
    /\ deployments'[d].triggered_by = "manual"
    /\ deployments'[d].commit_message = Some(message)
    /\ deployments'[d].commit_sha = NULL
    /\ deployments'[d].service_id \in DOMAIN services
    /\ deployments'[d].status =
          IF RunningOf(deployments'[d].service_id) # {} THEN "queued" ELSE "running"
    /\ (d \in {t.id : t \in pending'}) <=> (deployments'[d].status = "running")
    /\ response' = Some(Response(200, "", Some(d),
                                 Some(services[deployments'[d].service_id].name)))

\* The steps of a manual trigger with the commit message `message`: every row
\* created is the row of a manual trigger; the trigger for a service id that
\* exists creates one row, for that service; the trigger for an id no service
\* has answers 404 and changes nothing else.
ManualSteps(message) ==
    /\ \A d \in Created : ManualRow(d, message)
    /\ \A s \in ServiceIds \cup {NewServiceId(services)} :
          deploy_service(s) =>
             IF s \in DOMAIN services
             THEN /\ Cardinality(Created) = 1
                  /\ \A d \in Created : deployments'[d].service_id = s
             ELSE /\ response' = Some(HTTPException(404, "service not found"))
                  /\ UNCHANGED <<deployments, pending, services, active, clock>>

pushed_command(req) ==
    get_service_by_repository(config,
                              repository_full_name(req.body.payload.repository),
                              branch_of(req.body.payload.ref))[1].deploy_command

\* C20: the task of a promoted row has the command stored for its service at
\* the promotion; the task of a row created running has the command passed
\* to start_deployment; the runner executes the command of its task.
C20_PromotedCommand ==
    [][
        /\ \A t \in pending' \ pending :
             IF t.id \in DOMAIN deployments
             THEN t.command = services[t.service_id].deploy_command
             ELSE /\ deployments'[t.id].status = "running"
                  /\ t.command =
                        IF deployments'[t.id].triggered_by = "webhook"
                        THEN pushed_command(request'[1])
                        ELSE services[t.service_id].deploy_command
        /\ \A id \in DOMAIN active' \ DOMAIN active :
             \E u \in pending \ pending' :
                u.id = id /\ active'[id].command = u.command
      ]_vars

\* A promoted row of a push runs a command that is not the command of the
\* definition its push matched.
C20_Witness ==
    \E id \in DOMAIN active :
        /\ \E i \in 1..Len(promotions) : promotions[i] = id
        /\ deployments[id].triggered_by = "webhook"
        /\ active[id].command #
              get_service_by_repository(
                  config, services[deployments[id].service_id].repository,
                  deployments[id].branch)[1].deploy_command

\* The runners whose run_deployment task ends in a step.
Exiting == {d \in DOMAIN deployments : Count(runnerExits', d) > Count(runnerExits, d)}

\* The rows a step promotes.
Promoted ==
    {d \in DOMAIN deployments \cap DOMAIN deployments' :
        deployments[d].status = "queued" /\ deployments'[d].status = "running"}

\* C21: a row created for a service with no running row of its own is created
\* running with a runner task, whatever rows the other services hold; a row is
\* promoted only in a step in which a runner of its own service exits, and
\* such a step changes no row and creates no task of another service.
C21_ServicesIndependent ==
    [][/\ \A id \in Created :
             RunningOf(deployments'[id].service_id) = {} =>
                /\ deployments'[id].status = "running"
                /\ \E t \in pending' \ pending :
                      t.id = id /\ t.service_id = deployments'[id].service_id
       /\ \A q \in Promoted :
             \E e \in Exiting : deployments[e].service_id = deployments[q].service_id
       /\ \A e \in Exiting : \A d \in DOMAIN deployments :
             deployments[d].service_id # deployments[e].service_id =>
                /\ d \in DOMAIN deployments' /\ deployments'[d] = deployments[d]
                /\ \A t \in pending' \ pending : t.id # d
      ]_vars

\* A row of one service was created running behind a running row and a queued
\* row of the other service, and that queued row was then promoted while the
\* first row stayed as it was.
C21_Witness ==
    \E a, r, q \in DOMAIN deployments :
        /\ deployments[a].service_id # deployments[q].service_id
        /\ deployments[r].service_id = deployments[q].service_id
        /\ r < q /\ q < a
        /\ statusLog[a] = <<"running">>
        /\ promotions = <<q>>
        /\ Count(runnerExits, r) = 1

\* C22: the listing holds the rows whose status is running or queued, each
\* once and with its status, and no other row.
C22_ListingExact ==
    [][get_active_deployments =>
          LET list == response'[1].active_deployments
          IN  /\ {list[i].id : i \in 1..Len(list)} =
                    {d \in DOMAIN deployments :
                        deployments[d].status \in {"running", "queued"}}
              /\ \A i, j \in 1..Len(list) : list[i].id = list[j].id => i = j
              /\ \A i \in 1..Len(list) :
                    list[i].status = deployments[list[i].id].status
      ]_vars

\* C23: the table holds for every row the trigger that created it, webhook
\* for a push and manual for a manual trigger, and the task of a promoted row
\* has the trigger the table holds for the row.
C23_TriggerPersisted ==
    [][/\ \A d \in Created :
             /\ "triggered_by" \in DOMAIN persisted_row(deployments'[d])
             /\ persisted_row(deployments'[d]).triggered_by \in Triggers
             /\ \A s \in ServiceIds :
                   /\ handle_webhook_request(PushRequest(s)) =>
                         persisted_row(deployments'[d]).triggered_by = "webhook"
                   /\ deploy_service(s) =>
                         persisted_row(deployments'[d]).triggered_by = "manual"
       /\ \A t \in pending' \ pending :
             t.id \in Promoted =>
                /\ "triggered_by" \in DOMAIN persisted_row(deployments[t.id])
                /\ t.triggered_by = persisted_row(deployments[t.id]).triggered_by
      ]_vars

\* C24: a push creates a deployment only when its ref begins with
\* refs/heads/, the branch of the deployment is the ref without that first
\* piece, later refs/heads/ pieces kept, and a ref that is not empty and does
\* not begin with refs/heads/ is answered 400 with no deployment.
C24_LeadingPrefixOnly ==
    [][LET ref == request'[1].body.payload.ref
       IN  /\ \A d \in Created :
                 /\ ref # <<>> /\ ref[1] = "refs/heads/"
                 /\ deployments'[d].branch = Tail(ref)
           /\ (ref # <<>> /\ ref[1] # "refs/heads/") =>
                 /\ Created = {}
                 /\ response'[1].status = 400
      ]_vars

\* The ring entry of a [DEPLOY START] line, of a [DEPLOY END] line.
IsStartLine(e) == Len(e.line) >= 5 /\ e.line[5] = "[DEPLOY START]"

IsEndLine(e) == Len(e.line) >= 5 /\ e.line[5] = "[DEPLOY END]"

\* The ring of runner id before and after a step, empty when there is none.
RingOf(r, id) == IF id \in DOMAIN r THEN r[id] ELSE <<>>

\* The rows a step finalises.
Finalised ==
    {d \in DOMAIN deployments \cap DOMAIN deployments' :
        deployments[d].status \notin Terminal /\ deployments'[d].status \in Terminal}

\* C25: a ring only grows at its end; the entry appended first, and no other,
\* is the [DEPLOY START] line; nothing is appended behind a [DEPLOY END] line;
\* the [DEPLOY END] line is appended by a runner whose child has exited; and a
\* step that finalises a row leaves the [DEPLOY END] line as the last entry of
\* its ring.
C25_RingOrder ==
    [][/\ \A id \in DOMAIN ring' :
             LET old == RingOf(ring, id)
                 new == ring'[id]
             IN  /\ IsPrefix(old, new)
                 /\ \A i \in (Len(old) + 1)..Len(new) :
                       /\ IsStartLine(new[i]) <=> i = 1
                       /\ \A j \in 1..(i - 1) : ~IsEndLine(new[j])
                       /\ IsEndLine(new[i]) =>
                             /\ id \in DOMAIN active
                             /\ active[id].pc = "reaped"
                             /\ active[id].exit_code # NULL
       /\ \A d \in Finalised :
             /\ d \in DOMAIN ring'
             /\ ring'[d] # <<>>
             /\ IsEndLine(ring'[d][Len(ring'[d])])
      ]_vars

\* A finalised row whose ring holds the start line, captured lines of both
\* streams and the end line.
C25_Witness ==
    \E d \in DOMAIN deployments \cap DOMAIN ring :
        /\ deployments[d].status \in Terminal
        /\ Len(ring[d]) >= 3
        /\ IsStartLine(ring[d][1])
        /\ IsEndLine(ring[d][Len(ring[d])])
        /\ \E i \in 2..(Len(ring[d]) - 1) : ring[d][i].stream = "stderr"

\* The persisted text of one stream of a row.
BlobOf(row, stream) == IF stream = "stdout" THEN row.stdout ELSE row.stderr

\* blob is the lines of the entries of `stream` in logs, each once, in an
\* order in which no timestamp is behind a later one.
InTimestampOrder(logs, stream, blob) ==
    LET P == {i \in 1..Len(logs) : logs[i].stream = stream}
        n == Cardinality(P)
    IN  \E ord \in [1..n -> P] :
           /\ \A i, j \in 1..n : i < j =>
                 /\ ord[i] # ord[j]
                 /\ logs[ord[i]].timestamp <= logs[ord[j]].timestamp
           /\ blob = Some(Join([i \in 1..n |-> logs[ord[i]].line]))

\* C26: the step that finalises a row is taken by its runner after the child
\* exited; the status is success exactly when the exit code is 0 and failed
\* otherwise, the row holds that exit code, and the text of each stream is the
\* lines of that stream in the ring in timestamp order.
C26_FinalisedFromChild ==
    [][\A d \in Finalised :
          /\ d \in DOMAIN active
          /\ active[d].exit_code # NULL
          /\ deployments'[d].status = "success" <=> active[d].exit_code[1] = 0
          /\ deployments'[d].status = "failed" <=> active[d].exit_code[1] # 0
          /\ deployments'[d].exit_code = active[d].exit_code
          /\ \A stream \in Streams :
                InTimestampOrder(ring'[d], stream, BlobOf(deployments'[d], stream))
      ]_vars

\* A failed row with exit code 1 whose ring has entries of both streams
\* written at different times.
C26_Witness ==
    \E d \in DOMAIN deployments \cap DOMAIN ring :
        /\ deployments[d].status = "failed"
        /\ deployments[d].exit_code = Some(1)
        /\ deployments[d].stderr # Some(<<>>)
        /\ \E i, j \in 1..Len(ring[d]) :
              /\ ring[d][i].stream = "stderr"
              /\ ring[d][j].stream = "stdout"
              /\ ring[d][i].timestamp < ring[d][j].timestamp

\* The ring entry of a reader's exception.
IsErrorLine(e) == e.line = format_log_line(e.timestamp, error_message)

\* The streams of runner id whose reader has logged an exception.
Errored(r, id) ==
    {stream \in Streams :
        \E i \in 1..Len(RingOf(r, id)) :
            RingOf(r, id)[i].stream = stream /\ IsErrorLine(RingOf(r, id)[i])}

\* C27: a reader logs at most one exception line on its stream, and the step
\* that logs it leaves the runner, the rows and the tasks as they are; nothing
\* but the [DEPLOY END] line is appended on that stream afterwards, while the
\* reader of the other stream can still log; the child of the runner can
\* still exit and the runner can then finish; and the step that finishes
\* finalises the row from the exit code of the child, pops the runner and
\* processes the queue.
C27_ReadErrorStopsOneReader ==
    [][\A id \in DOMAIN ring' :
          LET old == RingOf(ring, id)
              new == ring'[id]
          IN  /\ \A stream \in Streams :
                    Cardinality({i \in 1..Len(new) :
                                    new[i].stream = stream /\ IsErrorLine(new[i])}) <= 1
              /\ \A i \in (Len(old) + 1)..Len(new) :
                    /\ IsErrorLine(new[i]) =>
                          /\ Len(new) = Len(old) + 1
                          /\ UNCHANGED <<active, deployments, pending>>
                    /\ new[i].stream \in Errored(ring, id) => IsEndLine(new[i])
              /\ (id \in DOMAIN active /\ Errored(ring, id) # {}) =>
                    /\ \A stream \in Streams \ Errored(ring, id) :
                          (Len(old) <= MaxLines /\ ~at_eof(old, stream)) =>
                             ENABLED read_stream(id, stream, <<"out", "\n">>)
                    /\ active[id].pc = "child" => ENABLED child_exit(id, 1)
                    /\ active[id].pc = "reaped" => ENABLED run_deployment_finish(id)
              /\ (id \in Finalised /\ Errored(ring, id) # {}) =>
                    /\ deployments'[id].status = FinalStatus(active[id].exit_code[1])
                    /\ deployments'[id].exit_code = active[id].exit_code
                    /\ Count(handlerCalls', id) = Count(handlerCalls, id) + 1
                    /\ id \notin DOMAIN active'
      ]_vars

\* The reader of stdout failed, the reader of stderr captured a line after
\* that, the row was finalised as failed and the row queued behind it was
\* promoted.
C27_Witness ==
    \E d \in DOMAIN deployments \cap DOMAIN ring :
        /\ deployments[d].status = "failed"
        /\ promotions # <<>>
        /\ \E i, j \in 1..Len(ring[d]) :
              /\ i < j
              /\ ring[d][i].stream = "stdout" /\ IsErrorLine(ring[d][i])
              /\ ring[d][j].stream = "stderr" /\ ~IsErrorLine(ring[d][j])

\* C28: the shutdown step leaves every runner of the active map as stop()
\* leaves it, and after the shutdown no runner of the map has a child that
\* has not exited.
C28_ShutdownStopsRunners ==
    [][(lifecycle = "serving" /\ lifecycle' = "stopped") =>
          /\ active' = [id \in DOMAIN active |-> stop(active[id])]
          /\ \A id \in DOMAIN active' : active'[id].pc # "child"
      ]_vars

C30_RestartKeepsRows ==
    [][(lifecycle = "starting" /\ lifecycle' # "starting") =>
          /\ \A d \in DOMAIN deployments :
                services[deployments[d].service_id].name
                      \in config_service_names(config') =>
                   /\ d \in DOMAIN deployments'
                   /\ deployments'[d] = deployments[d]
          /\ pending' = {}
          /\ active' = <<>>
          /\ runnerStarts' = <<>>
          /\ promotions' = <<>>
      ]_vars

\* After a startup a running row and the row queued behind it are in the
\* table, with no task and no runner.
C30_Witness ==
    /\ lifecycle = "serving"
    /\ pending = {}
    /\ active = <<>>
    /\ \E d, q \in DOMAIN deployments :
          /\ deployments[d].status = "running"
          /\ deployments[q].status = "queued"
          /\ deployments[q].service_id = deployments[d].service_id

\* C31: an id enters the active map only in the step in which the task of
\* that deployment starts, and leaves it only in the step in which that task
\* exits; a runner that stays in the map stays the runner of the same service
\* and command; and every id in the map is the id of a row whose status is
\* running.
C31_ActiveMapOfRunners ==
    [][/\ \A id \in DOMAIN active' \ DOMAIN active :
             /\ \E t \in pending \ pending' : t.id = id
             /\ Count(runnerStarts', id) = Count(runnerStarts, id) + 1
       /\ \A id \in DOMAIN active \ DOMAIN active' :
             Count(runnerExits', id) = Count(runnerExits, id) + 1
       /\ \A id \in DOMAIN active \cap DOMAIN active' :
             /\ active'[id].service_id = active[id].service_id
             /\ active'[id].command = active[id].command
             /\ Count(runnerExits', id) = Count(runnerExits, id)
       /\ \A id \in DOMAIN active' :
             /\ id \in DOMAIN deployments'
             /\ deployments'[id].status = "running"
             /\ deployments'[id].service_id = active'[id].service_id
      ]_vars

\* A finished row was cleared, and the runner of the next row of the service
\* is in the map, its child exited, with a row queued behind it.
C31_Witness ==
    /\ clock > Cardinality(DOMAIN deployments)
    /\ \E id \in DOMAIN active, q \in DOMAIN deployments :
          /\ active[id].pc = "reaped"
          /\ promotions = <<id>>
          /\ deployments[q].status = "queued"
          /\ deployments[q].service_id = active[id].service_id

\* C32: every status event a stream has sent carries a terminal status and an
\* exit code, whatever the state of the deployment was when the stream was
\* opened.
C32_StatusEventTerminal ==
    \A k \in DOMAIN subs :
        \A i \in 1..Len(subs[k].sent) :
            subs[k].sent[i].type = "status" =>
               /\ subs[k].sent[i].status \in Terminal
               /\ subs[k].sent[i].exit_code # NULL

\* C33: after every step every row of table deployments names a row of table
\* services, no two services have one name, and a deployment that stays in
\* its table names the service it named before, under the name it had.
C33_ReferentialIntegrity ==
    [][/\ \A d \in DOMAIN deployments' :
             deployments'[d].service_id \in DOMAIN services'
       /\ \A a, b \in DOMAIN services' :
             services'[a].name = services'[b].name => a = b
       /\ \A d \in DOMAIN deployments \cap DOMAIN deployments' :
             /\ deployments'[d].service_id = deployments[d].service_id
             /\ services'[deployments'[d].service_id].name
                   = services[deployments[d].service_id].name
      ]_vars

\* After a startup that left web under an id that is not its place in the
\* file, rows were deleted and a push created a deployment of a service.
C33_Witness ==
    /\ lifecycle = "serving"
    /\ clock > Cardinality(DOMAIN deployments)
    /\ \E s \in DOMAIN services : s = 3 /\ services[s].name = "web"
    /\ \E d \in DOMAIN deployments :
          /\ deployments[d].started_at > 0
          /\ deployments[d].triggered_by = "webhook"

TypeOK ==
    /\ DOMAIN deployments \subseteq 1..MaxDeployments
    /\ \A d \in DOMAIN deployments :
          /\ deployments[d].service_id \in ServiceIds
          /\ deployments[d].status \in Statuses
    /\ DOMAIN active \subseteq DOMAIN deployments
====
